---- MODULE Spec2Model ----
(***************************************************************************)
(* stonkAlerts.py: a single-run batch job.  main() loads config.json,      *)
(* optionally sets up logging, validates recentPeak >= recentTrend, runs   *)
(* create_ticker_message over the configured tickers, and either sends the *)
(* resulting message through send_message or probes the data provider.     *)
(*                                                                         *)
(* Prices are numpy float64 values and the drop is computed in IEEE-754    *)
(* binary64 arithmetic; that arithmetic is modelled bit-exactly on         *)
(* significands kept as bit sequences (most significant bit first).        *)
(***************************************************************************)
EXTENDS Integers, Sequences, FiniteSets, TLC

\* ------------------------------------------------------------------------
\* Bounds of the model
\* ------------------------------------------------------------------------
MaxTickers == 2

MaxHist == 3

MaxTrend == 2

\* ------------------------------------------------------------------------
\* Program constants
\* ------------------------------------------------------------------------
OK == 200

TODAY == -1

\* width of a binary64 significand
MantBits == 53

\* bits handled per step of the carry and long-division loops
ChunkBits == 8

\* chunks of fractional quotient bits the long division produces before rounding
DivChunks == 8

\* ------------------------------------------------------------------------
\* Input domains.  Closing prices are positive, as the provider delivers
\* them; they are floats holding whole numbers.  The tickers of a run are
\* pairwise distinct.  The interpreter runs with assert statements enabled.
\* ------------------------------------------------------------------------
Prices == {80, 86, 100}

Thresholds == {10, 14}

Peaks == {1, 2}

StatusCodes == {200, 204, 500}

TickerSymbols == <<"AAA", "BBB", "CCC", "DDD">>

Keys ==
  {"tickers", "recentPeak", "recentTrend", "percentDropped",
   "telegramBotId", "telegramChatId", "loggingEnabled", "logFileName"}

TickerLists == {SubSeq(TickerSymbols, 1, n) : n \in 0..MaxTickers}

Histories == UNION {[1..n -> Prices] : n \in 0..MaxHist}

\* config.json as found on disk: unreadable / malformed, or a JSON object
\* that lacks at most one of the keys the program reads.
ConfigFiles ==
  {[loadable |-> FALSE, missing |-> "none", loggingEnabled |-> FALSE,
    recentPeak |-> 1, recentTrend |-> 1, percentDropped |-> 10,
    tickers |-> <<>>]}
  \cup
  [loadable : {TRUE}, missing : Keys \cup {"none"}, loggingEnabled : BOOLEAN,
   recentPeak : Peaks, recentTrend : 1..MaxTrend, percentDropped : Thresholds,
   tickers : TickerLists]

\* what yfinance ...history() does for one ticker: raise, or return a series
FetchOutcomes ==
  {[raised |-> TRUE, history |-> <<>>]}
  \cup {[raised |-> FALSE, history |-> h] : h \in Histories}

\* what requests.post does: raise, or answer with a status code
Responses ==
  {[raised |-> TRUE, status |-> 0]}
  \cup {[raised |-> FALSE, status |-> s] : s \in StatusCodes}

\* ------------------------------------------------------------------------
\* Bit sequences (most significant bit first) standing for naturals.
\* Carries are propagated a chunk of ChunkBits bits at a time.
\* ------------------------------------------------------------------------
Zeros(n) == [i \in 1..n |-> 0]

\* the w-bit representation of n < 2^w
Pad(n, w) == [i \in 1..w |-> (n \div 2^(w - i)) % 2]

RECURSIVE NatBits(_)
NatBits(n) == IF n = 0 THEN <<>> ELSE Append(NatBits(n \div 2), n % 2)

RECURSIVE BitsToNat(_)
BitsToNat(b) ==
  IF b = <<>> THEN 0
  ELSE 2 * BitsToNat(SubSeq(b, 1, Len(b) - 1)) + b[Len(b)]

\* b without its leading zeros
Strip(b) ==
  IF \A i \in 1..Len(b) : b[i] = 0 THEN <<>>
  ELSE LET first == CHOOSE i \in 1..Len(b) :
                      b[i] = 1 /\ \A j \in 1..(i - 1) : b[j] = 0
       IN  SubSeq(b, first, Len(b))

\* b + 1
Inc(b) ==
  IF \A i \in 1..Len(b) : b[i] = 1 THEN <<1>> \o Zeros(Len(b))
  ELSE LET z == CHOOSE i \in 1..Len(b) :
                  b[i] = 0 /\ \A j \in (i + 1)..Len(b) : b[j] = 1
       IN  [i \in 1..Len(b) |-> IF i < z THEN b[i] ELSE IF i = z THEN 1 ELSE 0]

\* b * c + carry for small naturals c and carry
RECURSIVE MulCarry(_, _, _)
MulCarry(b, c, carry) ==
  IF b = <<>> THEN NatBits(carry)
  ELSE LET w == IF Len(b) < ChunkBits THEN Len(b) ELSE ChunkBits
           v == BitsToNat(SubSeq(b, Len(b) - w + 1, Len(b))) * c + carry
       IN  MulCarry(SubSeq(b, 1, Len(b) - w), c, v \div 2^w) \o Pad(v % 2^w, w)

\* a > b for bit sequences without leading zeros
BitsGreater(a, b) ==
  \/ Len(a) > Len(b)
  \/ /\ Len(a) = Len(b)
     /\ \E j \in 1..Len(a) :
          /\ a[j] = 1
          /\ b[j] = 0
          /\ \A i \in 1..(j - 1) : a[i] = b[i]

\* drop the k low bits of b, rounding to nearest, ties to even
RoundHalfEven(b, k) ==
  IF k <= 0 THEN b
  ELSE LET p     == IF Len(b) < k THEN Zeros(k - Len(b)) \o b ELSE b
           n     == Len(p) - k
           keep  == SubSeq(p, 1, n)
           guard == p[n + 1]
           stick == \E j \in (n + 2)..Len(p) : p[j] = 1
           odd   == keep # <<>> /\ keep[Len(keep)] = 1
       IN  IF guard = 1 /\ (stick \/ odd) THEN Inc(keep) ELSE keep

\* ------------------------------------------------------------------------
\* IEEE-754 binary64, non-negative values: mant * 2^exp with a 53-bit mant
\* ------------------------------------------------------------------------
FZero == [nan |-> FALSE, mant |-> <<>>, exp |-> 0]

FNaN == [nan |-> TRUE, mant |-> <<>>, exp |-> 0]

\* round the exact value b * 2^e to binary64
Round53(b, e) ==
  LET s == Strip(b)
  IN  IF s = <<>> THEN FZero
      ELSE IF Len(s) <= MantBits
        THEN [nan |-> FALSE, mant |-> s \o Zeros(MantBits - Len(s)),
              exp |-> e - (MantBits - Len(s))]
      ELSE LET k == Len(s) - MantBits
               r == RoundHalfEven(s, k)
           IN  IF Len(r) > MantBits
                 THEN [nan |-> FALSE, mant |-> SubSeq(r, 1, MantBits), exp |-> e + k + 1]
                 ELSE [nan |-> FALSE, mant |-> r, exp |-> e + k]

\* n chunks of fraction bits of r/m (r < m), then one sticky bit for the rest
RECURSIVE FracBits(_, _, _)
FracBits(r, m, n) ==
  IF n = 0 THEN << IF r = 0 THEN 0 ELSE 1 >>
  ELSE LET v == r * 2^ChunkBits
       IN  Pad(v \div m, ChunkBits) \o FracBits(v % m, m, n - 1)

\* d / m for floats holding the integers d >= 0 and m >= 0
FDiv(d, m) ==
  IF m = 0 THEN FNaN
  ELSE Round53(NatBits(d \div m) \o FracBits(d % m, m, DivChunks),
               -(DivChunks * ChunkBits + 1))

\* f * c for a float holding the small integer c
FMul(f, c) ==
  IF f.nan THEN FNaN
  ELSE IF f.mant = <<>> THEN FZero
  ELSE Round53(MulCarry(f.mant, c, 0), f.exp)

\* f > t for an integer t >= 0; every comparison with NaN is false
FGreater(f, t) ==
  /\ ~f.nan
  /\ f.mant # <<>>
  /\ IF f.exp <= 0
       THEN BitsGreater(f.mant, NatBits(t) \o (IF t = 0 THEN <<>> ELSE Zeros(-f.exp)))
       ELSE BitsGreater(f.mant \o Zeros(f.exp), NatBits(t))

\* rint(f): nearest integer, ties to even
FRint(f) ==
  IF f.mant = <<>> THEN 0
  ELSE IF f.exp >= 0 THEN BitsToNat(f.mant \o Zeros(f.exp))
  ELSE BitsToNat(RoundHalfEven(f.mant, -f.exp))

\* ------------------------------------------------------------------------
\* create_ticker_message: the per-ticker computation
\* ------------------------------------------------------------------------

\* whether series[k] exists for a Python index k (negative: from the end)
InBounds(series, k) == -Len(series) <= k /\ k < Len(series)

\* series[k] for a Python index k
Close(series, k) == IF k < 0 THEN series[Len(series) + k + 1] ELSE series[k + 1]

\* maxPrice = 0; for price in history.Close: if price > maxPrice: maxPrice = price
RECURSIVE MaxPriceFrom(_, _, _)
MaxPriceFrom(series, i, maxPrice) ==
  IF i > Len(series) THEN maxPrice
  ELSE MaxPriceFrom(series, i + 1,
                    IF series[i] > maxPrice THEN series[i] ELSE maxPrice)

MaxPrice(series) == MaxPriceFrom(series, 1, 0)

\* history.Close[-recentTrend] < history.Close[TODAY]: the ticker is skipped
AlwaysEvaluated(priceTrendAgo, priceToday) == FALSE

TrendRising(priceTrendAgo, priceToday) == priceTrendAgo < priceToday

\* -percentDropped, where percentDropped = ((priceToday - maxPrice)/maxPrice)*100.
\* priceToday <= maxPrice, so the value is the magnitude of a non-positive
\* float; IEEE negation is exact, so the magnitude carries the same rounding.
DropPercent(priceToday, maxPrice) ==
  FMul(FDiv(maxPrice - priceToday, maxPrice), 100)

\* percentDropped < -precentDroppedThreshold
BelowThreshold(priceToday, maxPrice, threshold) ==
  FGreater(DropPercent(priceToday, maxPrice), threshold)

\* round(-percentDropped, 2), in hundredths of a percent: numpy rounds a
\* float64 by rint(x * 100) / 100.
RoundedDrop(priceToday, maxPrice) ==
  FRint(FMul(DropPercent(priceToday, maxPrice), 100))

\* the text "<ticker> dropped <X>%\n" appended for one ticker, or nothing
AlertLine(ticker, priceToday, maxPrice, threshold) ==
  IF BelowThreshold(priceToday, maxPrice, threshold)
    THEN << [ticker |-> ticker, dropped |-> RoundedDrop(priceToday, maxPrice)] >>
    ELSE <<>>

\* AlertLine for every pair of prices and every threshold, computed once
AlertLines ==
  [t \in Thresholds |->
    [m \in Prices |->
      [p \in {q \in Prices : q <= m} |-> AlertLine("", p, m, t)]]]

LineFor(ticker, priceToday, maxPrice, threshold) ==
  IF maxPrice \in Prices /\ priceToday \in Prices /\ priceToday <= maxPrice
     /\ threshold \in Thresholds
    THEN [k \in 1..Len(AlertLines[threshold][maxPrice][priceToday]) |->
            [ticker |-> ticker,
             dropped |-> AlertLines[threshold][maxPrice][priceToday][k].dropped]]
    ELSE AlertLine(ticker, priceToday, maxPrice, threshold)

\* lines 99-119 for one fetched history that is long enough
TickerLines(ticker, series, recentTrend, threshold) ==
  IF TrendRising(Close(series, -recentTrend), Close(series, TODAY))
    THEN <<>>
    ELSE LineFor(ticker, Close(series, -1), MaxPrice(series), threshold)

\* `continue` after a failed fetch: the loop goes on with the next ticker
BreakLoop(i) == MaxTickers + 2

Continue(i) == i + 1

\* ------------------------------------------------------------------------
\* send_message
\* ------------------------------------------------------------------------
AnySuccessStatus(response, debug) ==
  ~response.raised /\ response.status >= 200 /\ response.status < 300

send_message(response, debug) ==
  IF response.raised THEN FALSE ELSE response.status = OK

\* ------------------------------------------------------------------------
\* main
\* ------------------------------------------------------------------------
NeverChecked(recentPeak, recentTrend) == TRUE

ValidPeakTrend(recentPeak, recentTrend) == recentPeak >= recentTrend

\* `if (message):` -- a non-empty string is true
AlwaysTrue(text) == TRUE

Truthy(text) == text # <<>>

AlwaysZero(messageSent) == 0

AlertOutcome(messageSent) == IF messageSent THEN 0 ELSE -1

VARIABLES
  config,     \* config.json / the dict main loads from it
  pc,         \* position of the run
  idx,        \* 1-based position of the for loop over tickers
  message,    \* the message accumulated by create_ticker_message
  obs,        \* what the provider returned for each ticker of this call
  fetched,    \* positions of the tickers whose history was requested
  probe,      \* outcome of the liveness probe: "none", "ok", "failed"
  posts,      \* the POSTs attempted, with send_message's return value
  retval,     \* <<>> until main returns, then <<0>> or <<-1>>
  fault,      \* the exception that escaped main, or "none"
  exitCode    \* <<>> until the interpreter exits, then its exit status

vars ==
  <<config, pc, idx, message, obs, fetched, probe, posts, retval, fault, exitCode>>

Has(key) == config.missing # key

Init ==
  /\ config \in ConfigFiles
  /\ pc = "load"
  /\ idx = 0
  /\ message = <<>>
  /\ obs = <<>>
  /\ fetched = <<>>
  /\ probe = "none"
  /\ posts = <<>>
  /\ retval = <<>>
  /\ fault = "none"
  /\ exitCode = <<>>

Return(value) == pc' = "returned" /\ retval' = <<value>> /\ fault' = fault

Raise(exception) == pc' = "crashed" /\ fault' = exception /\ retval' = retval

Goto(label) == pc' = label /\ retval' = retval /\ fault' = fault

\* the facts about one provider answer that the properties below refer to
Observe(i, outcome, recentTrend) ==
  LET h      == outcome.history
      enough == ~outcome.raised /\ Len(h) >= recentTrend
  IN  [i      |-> i,
       ok     |-> ~outcome.raised,
       enough |-> enough,
       ago    |-> IF enough THEN h[Len(h) - recentTrend + 1] ELSE 0,
       today  |-> IF enough THEN h[Len(h)] ELSE 0,
       peak   |-> IF enough
                    THEN CHOOSE x \in {h[j] : j \in 1..Len(h)} :
                           \A j \in 1..Len(h) : h[j] <= x
                    ELSE 0]

\* lines 131-137
LoadConfig ==
  /\ pc = "load"
  /\ IF config.loadable THEN Goto("logging") ELSE Return(-1)
  /\ UNCHANGED <<config, idx, message, obs, fetched, probe, posts, exitCode>>

\* lines 139-147
SetupLogging ==
  /\ pc = "logging"
  /\ IF ~Has("loggingEnabled") THEN Raise("KeyError")
     ELSE IF config.loggingEnabled
       THEN \E basicConfigWorks \in BOOLEAN :
              IF Has("logFileName") /\ basicConfigWorks
                THEN Goto("validate")
                ELSE Return(-1)
       ELSE Goto("validate")
  /\ UNCHANGED <<config, idx, message, obs, fetched, probe, posts, exitCode>>

\* line 150
ValidateConfig ==
  /\ pc = "validate"
  /\ IF ~Has("recentPeak") \/ ~Has("recentTrend") THEN Raise("KeyError")
     ELSE IF ~ValidPeakTrend(config.recentPeak, config.recentTrend)
       THEN Raise("AssertionError")
       ELSE Goto("call")
  /\ UNCHANGED <<config, idx, message, obs, fetched, probe, posts, exitCode>>

\* line 154 (the arguments) and lines 79-85
CallDetector ==
  /\ pc = "call"
  /\ IF ~Has("tickers") \/ ~Has("percentDropped")
       THEN Raise("KeyError") /\ UNCHANGED <<idx, message>>
       ELSE Goto("detect") /\ idx' = 1 /\ message' = <<>>
  /\ UNCHANGED <<config, obs, fetched, probe, posts, exitCode>>

\* lines 86-119: one iteration of the loop over tickers
ProcessTicker ==
  /\ pc = "detect"
  /\ idx <= Len(config.tickers)
  /\ \E outcome \in FetchOutcomes :
       /\ fetched' = Append(fetched, idx)
       /\ obs' = Append(obs, Observe(idx, outcome, config.recentTrend))
       /\ IF outcome.raised
            THEN Goto("detect") /\ idx' = Continue(idx) /\ message' = message
          ELSE IF ~InBounds(outcome.history, -config.recentTrend)
            THEN Raise("IndexError") /\ UNCHANGED <<idx, message>>
          ELSE /\ Goto("detect")
               /\ idx' = idx + 1
               /\ message' = message \o
                    TickerLines(config.tickers[idx], outcome.history,
                                config.recentTrend, config.percentDropped)
  /\ UNCHANGED <<config, probe, posts, exitCode>>

\* line 121, the assignment of line 154 and the test of line 157
DetectorReturns ==
  /\ pc = "detect"
  /\ idx > Len(config.tickers)
  /\ Goto(IF Truthy(message) THEN "notify" ELSE "probe")
  /\ obs' = <<>>
  /\ UNCHANGED <<config, idx, message, fetched, probe, posts, exitCode>>

\* lines 159-165
NotifyAlert ==
  /\ pc = "notify"
  /\ IF ~Has("telegramBotId") \/ ~Has("telegramChatId")
       THEN Raise("KeyError") /\ posts' = posts
       ELSE \E response \in Responses :
              LET messageSent == send_message(response, config.loggingEnabled)
              IN  /\ posts' = Append(posts, [text |-> "alert", response |-> response,
                                             debug |-> config.loggingEnabled,
                                             result |-> messageSent])
                  /\ Return(AlertOutcome(messageSent))
  /\ UNCHANGED <<config, idx, message, obs, fetched, probe, exitCode>>

\* lines 168-169 and 176-177
ProbeProvider ==
  /\ pc = "probe"
  /\ \E reachable \in BOOLEAN :
       IF reachable
         THEN probe' = "ok" /\ Return(0)
         ELSE probe' = "failed" /\ Goto("outage")
  /\ UNCHANGED <<config, idx, message, obs, fetched, posts, exitCode>>

\* lines 170-174
NotifyOutage ==
  /\ pc = "outage"
  /\ IF ~Has("telegramBotId") \/ ~Has("telegramChatId")
       THEN Raise("KeyError") /\ posts' = posts
       ELSE \E response \in Responses :
              /\ posts' = Append(posts, [text |-> "outage", response |-> response,
                                         debug |-> config.loggingEnabled,
                                         result |-> send_message(response, config.loggingEnabled)])
              /\ Return(-1)
  /\ UNCHANGED <<config, idx, message, obs, fetched, probe, exitCode>>

\* line 179: the value main returns is dropped; the interpreter exits with
\* status 0, or with status 1 after printing the traceback of a fault
ProcessExit ==
  /\ pc \in {"returned", "crashed"}
  /\ pc' = "exited"
  /\ exitCode' = << IF pc = "crashed" THEN 1 ELSE 0 >>
  /\ UNCHANGED <<config, idx, message, obs, fetched, probe, posts, retval, fault>>

Next ==
  \/ LoadConfig
  \/ SetupLogging
  \/ ValidateConfig
  \/ CallDetector
  \/ ProcessTicker
  \/ DetectorReturns
  \/ NotifyAlert
  \/ ProbeProvider
  \/ NotifyOutage
  \/ ProcessExit

Spec == Init /\ [][Next]_vars

\* ------------------------------------------------------------------------
\* Properties
\* ------------------------------------------------------------------------

\* the loop over the tickers has ended: message is what the detector returns
LoopDone == pc = "detect" /\ idx > Len(config.tickers)

\* create_ticker_message has returned to main
DetectorReturned ==
  pc \in {"notify", "probe", "outage", "returned", "crashed", "exited"}
  /\ idx > Len(config.tickers)

\* the configuration carries both keys that address the chat endpoint
TelegramKeys == Has("telegramBotId") /\ Has("telegramChatId")

HasLine(symbol) == \E k \in 1..Len(message) : message[k].ticker = symbol

TickersOf(lines) == [k \in 1..Len(lines) |-> lines[k].ticker]

\* the drop from the window's maximum strictly exceeds the threshold, exactly
ExceedsThreshold(o) ==
  (o.peak - o.today) * 100 > config.percentDropped * o.peak

\* the lines a run over the given answers yields, one ticker at a time
RECURSIVE LinesOver(_)
LinesOver(answers) ==
  IF answers = <<>> THEN <<>>
  ELSE LET o == answers[Len(answers)]
       IN  LinesOver(SubSeq(answers, 1, Len(answers) - 1)) \o
             (IF o.ago < o.today THEN <<>>
              ELSE LineFor(config.tickers[o.i], o.today, o.peak,
                           config.percentDropped))

\* the tickers, in input order, that pass the trend gate with a drop that
\* strictly exceeds the threshold
RECURSIVE Qualifying(_)
Qualifying(answers) ==
  IF answers = <<>> THEN <<>>
  ELSE LET o == answers[Len(answers)]
       IN  Qualifying(SubSeq(answers, 1, Len(answers) - 1)) \o
             (IF o.ago >= o.today /\ ExceedsThreshold(o)
                THEN << config.tickers[o.i] >> ELSE <<>>)

\* C1: a failed fetch never aborts the run.  When the loop ends every ticker
\* has been fetched, failing ones included, and the message is exactly the
\* lines of a run over the tickers whose fetch succeeded; a fault that ends
\* the detector is never raised by a ticker whose fetch failed.
C1_FailedFetchIsSkipped ==
  /\ (pc = "detect" /\ idx <= Len(config.tickers)) => idx = Len(obs) + 1
  /\ (fault = "IndexError") => (obs # <<>> /\ obs[Len(obs)].ok)
  /\ LoopDone =>
       /\ Len(obs) = Len(config.tickers)
       /\ \A i \in 1..Len(obs) : obs[i].i = i
       /\ message = LinesOver(SelectSeq(obs, LAMBDA o : o.ok))

C1_Witness ==
  /\ LoopDone
  /\ \E i \in 1..Len(obs) : \E j \in (i + 1)..Len(obs) :
       /\ ~obs[i].ok
       /\ obs[j].ok
       /\ HasLine(config.tickers[j])

\* C2: a ticker whose fetched history has fewer than recentTrend entries is
\* skipped: no fault escapes the detector and no line is appended for it.
C2_ShortHistoryIsSkipped ==
  \A k \in 1..Len(obs) :
    (obs[k].ok /\ ~obs[k].enough) =>
      /\ fault = "none"
      /\ pc # "crashed"
      /\ ~HasLine(config.tickers[obs[k].i])

\* C3: whatever the configuration, the provider and the chat endpoint do, no
\* error escapes main as a fault, and a finished run has returned 0 or -1.
C3_NoFaultEscapes ==
  /\ fault = "none"
  /\ pc # "crashed"
  /\ pc = "exited" => retval \in {<<0>>, <<-1>>}

\* the run succeeded: the alert went out with HTTP 200, or there was nothing
\* to report and the provider probe succeeded
RunSucceeded ==
  \/ /\ Len(posts) = 1
     /\ posts[1].text = "alert"
     /\ ~posts[1].response.raised
     /\ posts[1].response.status = 200
  \/ /\ posts = <<>>
     /\ probe = "ok"

\* C4: the exit code of the process is 0 exactly when the run succeeded and
\* -1 on every fatal condition.
C4_ExitCodeTellsOutcome ==
  pc = "exited" =>
    /\ RunSucceeded => exitCode = <<0>>
    /\ ~RunSucceeded => exitCode = <<-1>>

\* C5: a loaded configuration with recentPeak < recentTrend aborts the run
\* before any network activity: no history fetch, no liveness probe, no POST,
\* and the detector is never entered.
C5_InvalidWindowsNoNetwork ==
  (/\ config.loadable
   /\ Has("recentPeak")
   /\ Has("recentTrend")
   /\ config.recentPeak < config.recentTrend) =>
     /\ fetched = <<>>
     /\ probe = "none"
     /\ posts = <<>>
     /\ pc \in {"load", "logging", "validate", "returned", "crashed", "exited"}

C5_Witness ==
  /\ config.recentPeak < config.recentTrend
  /\ config.tickers # <<>>
  /\ fault = "AssertionError"
  /\ pc = "exited"
  /\ fetched = <<>>

\* C6: for a configuration that carries the chat-endpoint keys, when the
\* detector returned the empty message the run ends with 0 and no POST if the
\* liveness probe succeeded, and with -1 and exactly one POST (the outage
\* notice, whatever its result) if the probe failed.
C6_EmptyMessagePath ==
  (TelegramKeys /\ DetectorReturned /\ message = <<>>) =>
    /\ pc \in {"probe", "outage", "returned", "exited"}
    /\ pc = "probe" => (probe = "none" /\ posts = <<>>)
    /\ pc = "outage" => (probe = "failed" /\ posts = <<>>)
    /\ pc \in {"returned", "exited"} =>
         \/ probe = "ok" /\ retval = <<0>> /\ posts = <<>>
         \/ /\ probe = "failed"
            /\ retval = <<-1>>
            /\ Len(posts) = 1
            /\ posts[1].text = "outage"

C6_Witness ==
  /\ pc = "exited"
  /\ message = <<>>
  /\ probe = "failed"
  /\ Len(posts) = 1
  /\ posts[1].result
  /\ retval = <<-1>>

\* C7: send_message returns true if and only if the POST completed with HTTP
\* status 200; a transport exception or any other status yields false, with
\* debug logging on or off, and never a fault.
C7_SentOnlyOnStatus200 ==
  \A k \in 1..Len(posts) :
    /\ posts[k].result \in BOOLEAN
    /\ posts[k].result <=>
         (~posts[k].response.raised /\ posts[k].response.status = 200)
    /\ fault = "none"

C7_Witness ==
  \E k \in 1..Len(posts) :
    /\ ~posts[k].response.raised
    /\ posts[k].response.status # 200
    /\ posts[k].debug
    /\ ~posts[k].result

C9_LinesAreStrictDrops ==
  (LoopDone /\ \A i \in 1..Len(obs) : obs[i].ok /\ obs[i].enough) =>
    TickersOf(message) = Qualifying(obs)

\* C10: at most one POST is attempted, every ticker's history is fetched at
\* most once, a POST happens only after every configured ticker has been
\* processed; with the chat-endpoint keys configured, a non-empty detector
\* message leads to exactly one POST and no liveness probe, and main returns
\* 0 if that send returned true and -1 otherwise.
C10_SinglePass ==
  /\ Len(posts) <= 1
  /\ \A a, b \in 1..Len(fetched) : fetched[a] = fetched[b] => a = b
  /\ posts # <<>> => (DetectorReturned /\ Len(fetched) = Len(config.tickers))
  /\ (DetectorReturned /\ message # <<>>) => probe = "none"
  /\ (TelegramKeys /\ DetectorReturned /\ message # <<>>) =>
       /\ pc \in {"notify", "returned", "exited"}
       /\ pc = "notify" => posts = <<>>
       /\ pc \in {"returned", "exited"} =>
            /\ Len(posts) = 1
            /\ posts[1].text = "alert"
            /\ retval = << IF posts[1].result THEN 0 ELSE -1 >>

C10_Witness ==
  /\ pc = "exited"
  /\ message # <<>>
  /\ Len(fetched) = MaxTickers
  /\ Len(posts) = 1
  /\ ~posts[1].result
  /\ retval = <<-1>>

====
